---- MODULE Spec2Model ----
(***************************************************************************)
(* Fixed-width (CNAB) line parsing: cnab-fixedwidth (parse_line, Value,    *)
(* FixedWidthError) and cnab-derive (derive_fixed_width: position          *)
(* validation, overlap check, generated parse with its typed binding).     *)
(*                                                                         *)
(* Text is a sequence of characters; each character is written as a        *)
(* one-element name ("7", " ", "\r", "U+00E9").  A Rust &str is UTF-8, so   *)
(* str::len and the index of a slice count BYTES: Utf8Len gives the bytes  *)
(* of each character.  A 64-bit integer is kept as its canonical decimal   *)
(* numeral (a sequence of digit characters without leading zeros), since   *)
(* the values involved exceed the integers TLC computes with.              *)
(***************************************************************************)
EXTENDS Integers, Sequences, FiniteSets, TLC

VARIABLES
    line,      \* the raw line handed to parse_line / T::parse
    fields,    \* the &[FieldSpec] handed to parse_line by a direct caller
    input,     \* the struct definition handed to #[derive(FixedWidth)]
    derived,   \* outcome of the derive: NotExpanded, Impl(..) or CompileError(..)
    parsed,    \* the name -> Value mapping handed to the generated binding
    result,    \* outcome of the last call
    op         \* the last operation: "none", "parse_line", "derive", "parse", "bind",
               \* "as_f64"

vars == <<line, fields, input, derived, parsed, result, op>>

(***************************************************************************)
(* Bounds of the model.                                                    *)
(***************************************************************************)
MaxLineLen == 3      \* characters of an input line
MaxPos == 3          \* largest position a field declaration names
LongPad == 1         \* characters put before and after the 18-digit prefix

Max(S) == CHOOSE x \in S : \A y \in S : y <= x
Min(S) == CHOOSE x \in S : \A y \in S : x <= y

(***************************************************************************)
(* Characters.                                                             *)
(***************************************************************************)
\* Lines are made of the characters of one of three alphabets: text with
\* line endings, digits with padding, and the two-byte character U+00E9.
TextChars == {" ", "7", "A", "\r", "\n"}
DigitChars == {" ", "0", "7"}
WideChars == {"7", "U+00E9", "\n"}
Chars == TextChars \cup DigitChars \cup WideChars

AsciiDigits == {"0", "1", "2", "3", "4", "5", "6", "7", "8", "9"}

\* char::len_utf8: U+00E9 takes two bytes, the ASCII characters one.
Utf8Len(c) == IF c = "U+00E9" THEN 2 ELSE 1

\* char::is_whitespace (the White_Space characters of the alphabet).
is_whitespace(c) == c \in {" ", "\r", "\n"}

\* char::is_ascii_digit
is_ascii_digit(c) == c \in AsciiDigits

(***************************************************************************)
(* str operations used by parse_line.                                      *)
(***************************************************************************)
RECURSIVE str_len(_)
\* str::len: the length in bytes.
str_len(s) == IF s = <<>> THEN 0 ELSE Utf8Len(s[1]) + str_len(Tail(s))

\* str::is_char_boundary: byte index i is 0, the length, or the first byte
\* of a character.
is_char_boundary(s, i) ==
    \E k \in 0..Len(s) : str_len(SubSeq(s, 1, k)) = i

\* Number of characters that end at or before byte index i (i a boundary).
CharsBefore(s, i) ==
    CHOOSE k \in 0..Len(s) : str_len(SubSeq(s, 1, k)) = i

\* Index<Range<usize>> for str: &s[r.start..r.end] panics unless
\* start <= end <= len and both are character boundaries.
slice_ok(s, r) ==
    /\ r.start <= r.end
    /\ r.end <= str_len(s)
    /\ is_char_boundary(s, r.start)
    /\ is_char_boundary(s, r.end)

str_slice(s, r) == SubSeq(s, CharsBefore(s, r.start) + 1, CharsBefore(s, r.end))

RECURSIVE trim_end_matches(_, _)
\* str::trim_end_matches(&[..]): drops trailing characters while they are in pat.
trim_end_matches(s, pat) ==
    IF s # <<>> /\ s[Len(s)] \in pat
    THEN trim_end_matches(SubSeq(s, 1, Len(s) - 1), pat)
    ELSE s

RECURSIVE trim_end(_)
\* str::trim_end: drops trailing whitespace.
trim_end(s) ==
    IF s # <<>> /\ is_whitespace(s[Len(s)])
    THEN trim_end(SubSeq(s, 1, Len(s) - 1))
    ELSE s

RECURSIVE trim_start(_)
trim_start(s) ==
    IF s # <<>> /\ is_whitespace(s[1]) THEN trim_start(Tail(s)) ELSE s

\* str::trim: drops leading and trailing whitespace.
trim(s) == trim_start(trim_end(s))

(***************************************************************************)
(* i64 as canonical decimal numerals; str::parse::<i64>.                   *)
(***************************************************************************)
DigitVal(c) ==
    CASE c = "0" -> 0 [] c = "1" -> 1 [] c = "2" -> 2 [] c = "3" -> 3
      [] c = "4" -> 4 [] c = "5" -> 5 [] c = "6" -> 6 [] c = "7" -> 7
      [] c = "8" -> 8 [] c = "9" -> 9

DigitChar(d) == CHOOSE c \in AsciiDigits : DigitVal(c) = d

Zero == <<"0">>

\* The numeral of a small natural number.
RECURSIVE ToNumeral(_)
ToNumeral(k) ==
    IF k < 10 THEN <<DigitChar(k)>>
    ELSE Append(ToNumeral(k \div 10), DigitChar(k % 10))

\* i64::MAX = 2^63 - 1
I64Max == <<"9", "2", "2", "3", "3", "7", "2", "0", "3", "6",
            "8", "5", "4", "7", "7", "5", "8", "0", "7">>

RECURSIVE NumLeq(_, _)
\* a <= b for canonical numerals.
NumLeq(a, b) ==
    IF Len(a) # Len(b) THEN Len(a) < Len(b)
    ELSE IF a = <<>> THEN TRUE
    ELSE IF a[1] # b[1] THEN DigitVal(a[1]) < DigitVal(b[1])
    ELSE NumLeq(Tail(a), Tail(b))

\* acc * 10 + d
MulAdd10(acc, d) == IF acc = Zero THEN <<d>> ELSE Append(acc, d)

\* checked_mul(10) then checked_add(d) succeed on i64
FitsI64(n) == NumLeq(n, I64Max)

RECURSIVE parse_i64_from(_, _, _)
parse_i64_from(s, i, acc) ==
    IF i > Len(s) THEN [ok |-> TRUE, n |-> acc]
    ELSE LET nxt == MulAdd10(acc, s[i])
         IN  IF FitsI64(nxt) THEN parse_i64_from(s, i + 1, nxt)
             ELSE [ok |-> FALSE, n |-> Zero]

RECURSIVE accumulate(_, _, _)
accumulate(s, i, acc) ==
    IF i > Len(s) THEN acc ELSE accumulate(s, i + 1, MulAdd10(acc, s[i]))

\* Faulty variant of parse_i64: the digits are accumulated without overflow checks.
parse_i64_unchecked(s) == [ok |-> TRUE, n |-> accumulate(s, 1, Zero)]

\* s.parse::<i64>() on the strings parse_line passes it (non-empty, ASCII
\* digits only): the digits are accumulated with overflow checks.
parse_i64(s) == parse_i64_from(s, 1, Zero)

(***************************************************************************)
(* FieldPos, FieldKind, FieldSpec, Value, FixedWidthError.                 *)
(***************************************************************************)
Alpha == [tag |-> "Alpha", scale |-> 0]
Numeric == [tag |-> "Numeric", scale |-> 0]
Decimal(scale) == [tag |-> "Decimal", scale |-> scale]

FieldSpec(name, start, end, kind) ==
    [name |-> name, pos |-> [start |-> start, end |-> end], kind |-> kind]

ValueAlpha(s) == [kind |-> "Alpha", s |-> s]
ValueNumeric(n) == [kind |-> "Numeric", n |-> n]
ValueDecimal(raw, scale) == [kind |-> "Decimal", raw |-> raw, scale |-> scale]

LineTooShort(len, needed) == [tag |-> "LineTooShort", len |-> len, needed |-> needed]
InvalidNumeric(field, snippet) ==
    [tag |-> "InvalidNumeric", field |-> field, snippet |-> snippet]
InvalidUtf8 == [tag |-> "InvalidUtf8"]
\* An abort of the call (a Rust panic), not a value of FixedWidthError.
Panic == [tag |-> "Panic"]
Ok(v) == [tag |-> "Ok", value |-> v]
NoResult == [tag |-> "None"]

\* FieldPos::as_range: (start - 1)..end on usize.  start = 0 underflows: a
\* panic in a debug build, usize::MAX in a release build, where the slice
\* then panics (start > end); both builds abort.
as_range_ok(pos) == pos.start >= 1
as_range(pos) == [start |-> pos.start - 1, end |-> pos.end]


(***************************************************************************)
(* parse_line.                                                             *)
(***************************************************************************)
\* Faulty variant of too_short: the comparison is off by one.
too_short_off_by_one(len, needed) == len <= needed

\* The bounds check of a field: len < needed.
too_short(len, needed) == len < needed

\* The Numeric and Decimal arms of the match on field.kind.
coerce_number(field, slice) ==
    LET s == trim(slice)
        mk(n) == IF field.kind.tag = "Numeric" THEN ValueNumeric(n)
                 ELSE ValueDecimal(n, field.kind.scale)
    IN  IF s = <<>> THEN Ok(mk(Zero))
        ELSE IF ~(\A i \in 1..Len(s) : is_ascii_digit(s[i]))
             THEN InvalidNumeric(field.name, slice)
        ELSE LET p == parse_i64(s)
             IN  IF p.ok THEN Ok(mk(p.n)) ELSE InvalidNumeric(field.name, slice)

\* Faulty variant of coerce_alpha: both ends are trimmed.
coerce_alpha_trim(slice) == Ok(ValueAlpha(trim(slice)))

\* The Alpha arm.
coerce_alpha(slice) == Ok(ValueAlpha(trim_end(slice)))

\* match field.kind { ... }
coerce(field, slice) ==
    IF field.kind.tag = "Alpha" THEN coerce_alpha(slice)
    ELSE coerce_number(field, slice)

\* The line ending characters parse_line strips.
LineEndChars == {"\r", "\n"}

\* Faulty variant of strip_line_end: one trailing CR or LF is dropped.
strip_line_end_once(l) ==
    IF l # <<>> /\ l[Len(l)] \in LineEndChars THEN SubSeq(l, 1, Len(l) - 1) ELSE l

\* let line = line.trim_end_matches(&['\r', '\n'][..]);
strip_line_end(l) == trim_end_matches(l, LineEndChars)

EmptyMap == [n \in {} |-> NoResult]

RECURSIVE parse_fields(_, _, _, _, _)
\* The for loop of parse_line from field i on, with the map built so far.
parse_fields(l, len, fs, i, map) ==
    IF i > Len(fs) THEN Ok(map)
    ELSE LET field == fs[i]
             needed == field.pos.end
         IN  IF too_short(len, needed) THEN LineTooShort(len, needed)
             ELSE IF ~as_range_ok(field.pos) \/ ~slice_ok(l, as_range(field.pos))
                  THEN Panic
             ELSE LET v == coerce(field, str_slice(l, as_range(field.pos)))
                  IN  IF v.tag # "Ok" THEN v
                      ELSE parse_fields(l, len, fs, i + 1,
                                        (field.name :> v.value) @@ map)

parse_line(l, fs) ==
    LET stripped == strip_line_end(l)
    IN  parse_fields(stripped, str_len(stripped), fs, 1, EmptyMap)

(***************************************************************************)
(* Value accessors.                                                        *)
(***************************************************************************)
None == [some |-> FALSE]
Some(x) == [some |-> TRUE, x |-> x]

\* Value::as_str
as_str(v) == IF v.kind = "Alpha" THEN Some(v.s) ELSE None

\* Value::as_i64
as_i64(v) == IF v.kind = "Numeric" THEN Some(v.n) ELSE None

\* 10_i64.pow(scale) stays within i64 up to 10^18.
pow10_fits_i64(scale) == scale < Len(I64Max)

\* The largest scale: scale is a u8.
U8Max == 255

\* 10^scale, exactly: the digit 1 followed by scale zeros.
Pow10(scale) == [i \in 1..(scale + 1) |-> IF i = 1 THEN "1" ELSE "0"]

\* 2^64
TwoPow64 == <<"1", "8", "4", "4", "6", "7", "4", "4", "0", "7",
              "3", "7", "0", "9", "5", "5", "1", "6", "1", "6">>

RECURSIVE strip_zeros(_)
strip_zeros(n) == IF Len(n) > 1 /\ n[1] = "0" THEN strip_zeros(Tail(n)) ELSE n

RECURSIVE sub_digits(_, _, _, _, _)
\* The digits of a - b from position i leftwards, b aligned to the right.
sub_digits(a, b, i, borrow, acc) ==
    IF i = 0 THEN acc
    ELSE LET j == i - (Len(a) - Len(b))
             d == DigitVal(a[i]) - (IF j >= 1 THEN DigitVal(b[j]) ELSE 0) - borrow
         IN  IF d < 0 THEN sub_digits(a, b, i - 1, 1, <<DigitChar(d + 10)>> \o acc)
             ELSE sub_digits(a, b, i - 1, 0, <<DigitChar(d)>> \o acc)

\* a - b for numerals with b <= a.
NumSub(a, b) == strip_zeros(sub_digits(a, b, Len(a), 0, <<>>))

RECURSIVE wrap_u64(_)
\* n mod 2^64: the 64 bits a multiplication without overflow checks keeps.
wrap_u64(n) == IF NumLeq(TwoPow64, n) THEN wrap_u64(NumSub(n, TwoPow64)) ELSE n

\* The bits of u read as an i64 (two's complement), as sign and magnitude.
I64(neg, mag) == [neg |-> neg, mag |-> mag]

bits_as_i64(u) ==
    IF NumLeq(u, I64Max) THEN I64(FALSE, u) ELSE I64(TRUE, NumSub(TwoPow64, u))

RECURSIVE add_digits(_, _, _, _, _)
\* The digits of a + b from the k-th digit from the right leftwards.
add_digits(a, b, k, carry, acc) ==
    IF k >= Max({Len(a), Len(b)})
    THEN IF carry = 1 THEN <<"1">> \o acc ELSE acc
    ELSE LET d == (IF k < Len(a) THEN DigitVal(a[Len(a) - k]) ELSE 0)
                  + (IF k < Len(b) THEN DigitVal(b[Len(b) - k]) ELSE 0) + carry
         IN  add_digits(a, b, k + 1, d \div 10, <<DigitChar(d % 10)>> \o acc)

\* a + b for numerals.
NumAdd(a, b) == add_digits(a, b, 0, 0, <<>>)

\* a + b on 64 bits, the carry out dropped.
wrapping_add(a, b) == wrap_u64(NumAdd(a, b))

\* FieldPos::width: self.end - self.start + 1 on usize (64 bits), as a
\* numeral.  For end < start the subtraction underflows and the outcome is
\* the build's: with overflow checks it panics, without them the difference
\* wraps to 2^64 - (start - end) and the sum is taken on 64 bits (0 when
\* start = end + 1).
width(pos, overflow_checks) ==
    IF pos.end >= pos.start THEN Ok(ToNumeral(pos.end - pos.start + 1))
    ELSE IF overflow_checks THEN Panic
    ELSE Ok(wrapping_add(NumSub(TwoPow64, ToNumeral(pos.start - pos.end)), <<"1">>))

\* In the three loops below the tests against the empty sequence never hold (a
\* numeral has at least one digit); they make each accumulator a computed
\* value before the next iteration starts.
RECURSIVE add_times(_, _, _)
\* acc + d * a on 64 bits, for a digit d.
add_times(a, d, acc) ==
    IF d = 0 \/ acc = <<>> THEN acc ELSE add_times(a, d - 1, wrapping_add(acc, a))

RECURSIVE wrapping_mul_from(_, _, _, _)
wrapping_mul_from(a, b, i, acc) ==
    IF i > Len(b) \/ acc = <<>> THEN acc
    ELSE wrapping_mul_from(a, b, i + 1,
             add_times(a, DigitVal(b[i]), wrap_u64(MulAdd10(acc, "0"))))

\* a * b on 64 bits: the low 64 bits of the product.
wrapping_mul(a, b) == wrapping_mul_from(a, b, 1, Zero)

RECURSIVE pow_loop(_, _, _)
\* The loop of i64::pow (exponentiation by squaring) for exp >= 1, on the
\* 64 bits of the operands:
\*   loop { if exp & 1 == 1 { acc = acc * base; if exp == 1 { return acc } }
\*          exp /= 2; base = base * base }
pow_loop(base, exp, acc) ==
    IF base = <<>> \/ acc = <<>> THEN <<>>
    ELSE IF exp % 2 = 1
    THEN IF exp = 1 THEN wrapping_mul(acc, base)
         ELSE pow_loop(wrapping_mul(base, base), exp \div 2, wrapping_mul(acc, base))
    ELSE pow_loop(wrapping_mul(base, base), exp \div 2, acc)

\* The 64 bits of 10_i64.pow(scale) when no multiplication is checked.
wrapping_pow10_bits(scale) ==
    IF scale = 0 THEN <<"1">> ELSE pow_loop(<<"1", "0">>, scale, <<"1">>)

\* 10_i64.pow(scale as u32).  When the power exceeds i64::MAX the outcome is
\* the build's: with overflow checks (debug profile) the multiplication
\* panics, without them (release profile) the result wraps.
pow10(scale, overflow_checks) ==
    IF pow10_fits_i64(scale) THEN Ok(I64(FALSE, Pow10(scale)))
    ELSE IF overflow_checks THEN Panic
    ELSE Ok(bits_as_i64(wrapping_pow10_bits(scale)))

\* Value::as_f64: Some(raw as f64 / factor as f64) on a Decimal, None on the
\* other kinds.  The f64 is kept as the division it is the result of:
\* dividend raw and divisor factor, both integers converted to f64 (a
\* divisor 0 gives an infinity, or NaN for raw = 0).
as_f64(v, overflow_checks) ==
    IF v.kind # "Decimal" THEN None
    ELSE LET factor == pow10(v.scale, overflow_checks)
         IN  IF factor.tag = "Panic" THEN Panic
             ELSE Some([f64 |-> "div", raw |-> v.raw, factor |-> factor.value])

(***************************************************************************)
(* derive_fixed_width: the fields of the struct, parse_pos, the overlap    *)
(* check and the generated FixedWidthParse::parse.                         *)
(***************************************************************************)
\* One named field of the struct with its #[fw(pos = "start..end", kind)].
ParsedField(ident, ty, start, end, kind) ==
    [ident |-> ident, ty |-> ty, pos_start |-> start, pos_end |-> end, kind |-> kind]

\* Faulty variant of parse_pos: only start = 0 is refused.
parse_pos_start_only(start, end) == start # 0

\* parse_pos on a literal "start..end" of two numbers: Ok unless
\* start == 0 || end < start.
parse_pos(start, end) == ~(start = 0 \/ end < start)

overlap_start(f1, f2) == IF f1.pos_start >= f2.pos_start THEN f1.pos_start ELSE f2.pos_start
overlap_end(f1, f2) == IF f1.pos_end <= f2.pos_end THEN f1.pos_end ELSE f2.pos_end

\* Faulty variant of collides: a strict comparison.
collides_strict(f1, f2) == overlap_start(f1, f2) < overlap_end(f1, f2)

\* if overlap_start <= overlap_end
collides(f1, f2) == overlap_start(f1, f2) <= overlap_end(f1, f2)

\* The pairs the two nested loops visit: f1 at i, f2 in parsed_fields[i + 1..].
pairs_checked(n) == {p \in (1..n) \X (1..n) : p[1] < p[2]}

\* The first colliding pair in the order of the loops, if any.
overlap_check(pfs) ==
    LET bad == {p \in pairs_checked(Len(pfs)) : collides(pfs[p[1]], pfs[p[2]])}
    IN  IF bad = {} THEN [conflict |-> FALSE]
        ELSE LET i == Min({p[1] : p \in bad})
                 j == Min({p[2] : p \in {q \in bad : q[1] = i}})
             IN  [conflict |-> TRUE,
                  a |-> pfs[i].ident, b |-> pfs[j].ident,
                  overlap_start |-> overlap_start(pfs[i], pfs[j]),
                  overlap_end |-> overlap_end(pfs[i], pfs[j])]

\* The vec![FieldSpec { .. }, ..] of the generated parse.
field_specs(pfs) ==
    [i \in 1..Len(pfs) |->
        FieldSpec(pfs[i].ident, pfs[i].pos_start, pfs[i].pos_end, pfs[i].kind)]

NotExpanded == [tag |-> "none"]
CompileError(why) == [tag |-> "compile_error", why |-> why]
Impl(pfs) == [tag |-> "impl", parsed_fields |-> pfs]

\* The expansion of #[derive(FixedWidth)] on a struct.
derive_fixed_width(inp) ==
    IF \E i \in 1..Len(inp) : ~parse_pos(inp[i].pos_start, inp[i].pos_end)
    THEN CompileError([kind |-> "pos"])
    ELSE IF overlap_check(inp).conflict
         THEN CompileError([kind |-> "overlap", pair |-> overlap_check(inp)])
    ELSE Impl(inp)

RECURSIVE NumMod(_, _, _, _)
\* n mod m for a numeral n, digit by digit.
NumMod(n, i, m, acc) ==
    IF i > Len(n) THEN acc
    ELSE NumMod(n, i + 1, m, (acc * 10 + DigitVal(n[i])) % m)

\* The integer types a Numeric field is declared with here, and their bits.
IntBits(ty) == CASE ty = "u8" -> 8 [] ty = "u16" -> 16 [] ty = "i64" -> 64

\* `n as ty` for n >= 0 of type i64: the low bits of n are kept.
cast_as(n, ty) ==
    IF IntBits(ty) = 64 THEN n
    ELSE ToNumeral(NumMod(n, 1, 2 ^ IntBits(ty), 0))

\* One `ident: expr` of Ok(Self { .. }): parsed[name] panics on a missing
\* key; the accessor and ok_or(..)? return the error on a kind mismatch.
field_init(f, map, overflow_checks) ==
    IF f.ident \notin DOMAIN map THEN Panic
    ELSE LET v == map[f.ident]
         IN  CASE f.kind.tag = "Alpha" ->
                    IF as_str(v).some THEN Ok([ty |-> f.ty, s |-> as_str(v).x])
                    ELSE InvalidUtf8
               [] f.kind.tag = "Numeric" ->
                    IF as_i64(v).some
                    THEN Ok([ty |-> f.ty, n |-> cast_as(as_i64(v).x, f.ty)])
                    ELSE InvalidNumeric(f.ident, <<>>)
               [] f.kind.tag = "Decimal" ->
                    LET r == as_f64(v, overflow_checks)
                    IN  IF r = Panic THEN Panic
                        ELSE IF r.some THEN Ok([ty |-> f.ty, f |-> r.x])
                        ELSE InvalidNumeric(f.ident, <<>>)

RECURSIVE bind_fields(_, _, _, _, _)
\* Ok(Self { a: .., b: .. }): the initialisers run in declaration order and
\* the first error returns.
bind_fields(pfs, i, map, rec, overflow_checks) ==
    IF i > Len(pfs) THEN Ok(rec)
    ELSE LET r == field_init(pfs[i], map, overflow_checks)
         IN  IF r.tag # "Ok" THEN r
             ELSE bind_fields(pfs, i + 1, map, (pfs[i].ident :> r.value) @@ rec,
                              overflow_checks)

\* The binding part of the generated parse.
bind(pfs, map, overflow_checks) ==
    bind_fields(pfs, 1, map, EmptyMap, overflow_checks)

\* The generated FixedWidthParse::parse.
generated_parse(pfs, l, overflow_checks) ==
    LET r == parse_line(l, field_specs(pfs))
    IN  IF r.tag # "Ok" THEN r ELSE bind(pfs, r.value, overflow_checks)

(***************************************************************************)
(* Inputs.                                                                 *)
(***************************************************************************)
SeqsUpTo(S, n) == UNION {[1..k -> S] : k \in 0..n}

Lines ==
    SeqsUpTo(TextChars, MaxLineLen) \cup SeqsUpTo(DigitChars, MaxLineLen)
        \cup SeqsUpTo(WideChars, MaxLineLen)

FieldNames == <<"a", "b">>

Kinds == {Alpha, Numeric, Decimal(2)}

Ranges == {p \in [start : 1..MaxPos, end : 1..MaxPos] : p.start <= p.end}

Disjoint(p, q) == p.end < q.start \/ q.end < p.start

\* The layouts a record type can have: 1 <= start <= end in every field and
\* no position shared by two fields, in any order of declaration.
Layouts ==
    UNION {{ps \in [1..k -> Ranges] :
               \A i, j \in 1..k : i # j => Disjoint(ps[i], ps[j])} :
           k \in 0..Len(FieldNames)}

\* The field list with positions ps and kinds ks, named in order.
FieldListOf(ps, ks) ==
    [i \in 1..Len(ps) |-> [name |-> FieldNames[i], pos |-> ps[i], kind |-> ks[i]]]

\* Lines around the i64 limit: the first 18 digits of i64::MAX, with a few
\* characters before and after, read by one field that spans them.
Big18 == SubSeq(I64Max, 1, Len(I64Max) - 1)

LongLines ==
    {h \o Big18 \o t : h \in SeqsUpTo({"0", " "}, LongPad),
                       t \in SeqsUpTo({" ", "7", "8"}, LongPad)}

LongRanges ==
    [start : 1..(1 + LongPad), end : Len(Big18)..(Len(Big18) + 2 * LongPad)]

(***************************************************************************)
(* The line parser called directly.                                        *)
(***************************************************************************)
Init ==
    /\ \/ /\ line \in Lines
          /\ \E ps \in Layouts : \E ks \in [1..Len(ps) -> Kinds] :
                 fields = FieldListOf(ps, ks)
       \/ /\ line \in LongLines
          /\ \E p \in LongRanges, k \in Kinds : fields = FieldListOf(<<p>>, <<k>>)
    /\ input = <<>>
    /\ derived = NotExpanded
    /\ parsed = EmptyMap
    /\ result = NoResult
    /\ op = "none"

\* A caller hands the line and a field list of its own to the public
\* parse_line (as the crate's test does).  A struct whose derive failed
\* leaves no program to run.
ParseLine ==
    /\ derived.tag # "compile_error"
    /\ result' = parse_line(line, fields)
    /\ op' = "parse_line"
    /\ UNCHANGED <<line, fields, input, derived, parsed>>

Next == ParseLine

Spec == Init /\ [][Next]_vars

(***************************************************************************)
(* Record types: the derive, then parse calls on the derived type.         *)
(***************************************************************************)
\* Kind and declared type of a field of the struct.
KindTys ==
    {<<Alpha, "String">>, <<Numeric, "u8">>, <<Numeric, "i64">>, <<Decimal(2), "f64">>}

\* Positions as they can be written in pos = "start..end".
Written == [start : 0..MaxPos, end : 0..MaxPos]

\* The struct whose fields are named in order and have positions ps and
\* kinds and types kt.
StructOf(names, ps, kt) ==
    [i \in 1..Len(ps) |->
        ParsedField(names[i], kt[i][2], ps[i].start, ps[i].end, kt[i][1])]

\* input is a struct of up to Len(names) fields with kinds and types of kts.
IsStructOf(st, names, kts) ==
    \E k \in 0..Len(names) : \E ps \in [1..k -> Written] : \E kt \in [1..k -> kts] :
        st = StructOf(names, ps, kt)

\* Structs of three text fields, for the pairs of the overlap check.
TextNames == <<"a", "b", "c">>

\* Lines of digits, and one that is no number.
DeriveLines == SeqsUpTo({"7"}, MaxLineLen) \cup {<<"A">>}

InitDerive ==
    /\ \/ IsStructOf(input, FieldNames, KindTys) /\ line \in DeriveLines
       \/ IsStructOf(input, TextNames, {<<Alpha, "String">>}) /\ line = <<>>
    /\ fields = field_specs(input)
    /\ derived = NotExpanded
    /\ parsed = EmptyMap
    /\ result = NoResult
    /\ op = "none"

\* The compiler expands #[derive(FixedWidth)] on the struct.
Derive ==
    /\ derived = NotExpanded
    /\ derived' = derive_fixed_width(input)
    /\ op' = "derive"
    /\ UNCHANGED <<line, fields, input, parsed, result>>

\* T::parse(line) on the derived type: it exists once the derive produced
\* the impl.
Parse ==
    /\ derived.tag = "impl"
    /\ LET r == parse_line(line, field_specs(derived.parsed_fields))
       IN  /\ parsed' = IF r.tag = "Ok" THEN r.value ELSE EmptyMap
           /\ \E overflow_checks \in BOOLEAN :
                 result' = generated_parse(derived.parsed_fields, line, overflow_checks)
    /\ op' = "parse"
    /\ UNCHANGED <<line, fields, input, derived>>

NextDerive == Derive \/ Parse \/ ParseLine

SpecDerive == InitDerive /\ [][NextDerive]_vars

(***************************************************************************)
(* The binding of the generated parse as a step of its own: it runs on the *)
(* map that parse_line returned for the line over the fields of the same   *)
(* struct (let parsed = parse_line(line, &fields)?;  Ok(Self { .. })).     *)
(***************************************************************************)
InitBind ==
    /\ IsStructOf(input, FieldNames, KindTys)
    /\ derived = derive_fixed_width(input)
    /\ derived.tag = "impl"
    /\ line \in DeriveLines
    /\ fields = field_specs(input)
    /\ parse_line(line, fields).tag = "Ok"
    /\ parsed = parse_line(line, fields).value
    /\ result = NoResult
    /\ op = "none"

\* Ok(Self { .. }) evaluated on the mapping.
Bind ==
    /\ derived.tag = "impl"
    /\ \E overflow_checks \in BOOLEAN :
          result' = bind(derived.parsed_fields, parsed, overflow_checks)
    /\ op' = "bind"
    /\ UNCHANGED <<line, fields, input, derived, parsed>>

NextBind == Bind

SpecBind == InitBind /\ [][NextBind]_vars

(***************************************************************************)
(* Value::as_f64 on any Value: Value and its fields are public, and        *)
(* parse_line stores Decimal { raw, scale } with the scale of the field.   *)
(***************************************************************************)
\* raw of the Decimal values: the digits "001234" of a field.
DecimalRaws == {<<"1", "2", "3", "4">>}

ValuesF64 ==
    {ValueAlpha(<<"A">>), ValueNumeric(<<"7">>)}
        \cup {ValueDecimal(r, s) : r \in DecimalRaws, s \in 0..U8Max}

InitValue ==
    /\ \E v \in ValuesF64 : parsed = ("a" :> v)
    /\ line = <<>>
    /\ fields = <<>>
    /\ input = <<>>
    /\ derived = NotExpanded
    /\ result = NoResult
    /\ op = "none"

\* parsed["a"].as_f64(), in a build with or without overflow checks.
AsF64 ==
    /\ "a" \in DOMAIN parsed
    /\ \E overflow_checks \in BOOLEAN :
          result' = as_f64(parsed["a"], overflow_checks)
    /\ op' = "as_f64"
    /\ UNCHANGED <<line, fields, input, derived, parsed>>

NextValue == AsF64

SpecValue == InitValue /\ [][NextValue]_vars

(***************************************************************************)
(* Properties of parse_line.  The definitions below describe the expected  *)
(* outcome from the positions and characters of the line, without the      *)
(* operators of the parser.                                                *)
(***************************************************************************)

\* The line without its trailing CR/LF characters.
Stripped(l) ==
    LET keep == {k \in 1..Len(l) : l[k] \notin {"\r", "\n"}}
    IN  IF keep = {} THEN <<>> ELSE SubSeq(l, 1, Max(keep))

\* Bytes of the UTF-8 encoding of s.
Utf8Bytes(s) ==
    Len(s) + Cardinality({k \in 1..Len(s) : s[k] = "U+00E9"})

SingleByte(s) == Utf8Bytes(s) = Len(s)

MaxEnd(fs) == IF fs = <<>> THEN 0 ELSE Max({fs[i].pos.end : i \in 1..Len(fs)})

\* Index of the first field, in schema order, whose end exceeds n.
FirstShort(fs, n) == Min({i \in 1..Len(fs) : fs[i].pos.end > n})

Called == op = "parse_line"

\* C1 as claimed, on lines of single-byte characters (where bytes and
\* characters coincide): a line shorter than the largest end of the schema
\* gives LineTooShort{len, needed} for the first field, in schema order,
\* whose end exceeds the line, and no other outcome.
C1_Claimed ==
    (Called /\ SingleByte(line) /\ Len(Stripped(line)) < MaxEnd(fields)) =>
        LET n == Len(Stripped(line))
        IN  result = LineTooShort(n, fields[FirstShort(fields, n)].pos.end)

\* C1 amended: with n the stripped length as parse_line measures it (UTF-8
\* bytes) and k the first field whose end exceeds n, the call never
\* succeeds; it returns LineTooShort{n, end of k} when the fields before k
\* are all extracted, and otherwise the failure of the earlier field that
\* failed (InvalidNumeric, or the abort of the slice).
C1_Amended ==
    (Called /\ Utf8Bytes(Stripped(line)) < MaxEnd(fields)) =>
        LET n == Utf8Bytes(Stripped(line))
            k == FirstShort(fields, n)
            pre == parse_line(line, SubSeq(fields, 1, k - 1))
        IN  /\ result.tag # "Ok"
            /\ result.tag = "LineTooShort" =>
                    result = LineTooShort(n, fields[k].pos.end)
            /\ pre.tag = "Ok" => result.tag = "LineTooShort"
            /\ pre.tag # "Ok" => result = pre /\ pre.tag \in {"InvalidNumeric", "Panic"}

\* C1 witness: the second field is the first too-short one and is reported.
C1_Witness ==
    /\ Called /\ Len(fields) = 2
    /\ fields[1].pos.end <= Utf8Bytes(Stripped(line))
    /\ fields[2].pos.end > Utf8Bytes(Stripped(line))
    /\ result = LineTooShort(Utf8Bytes(Stripped(line)), fields[2].pos.end)

(***************************************************************************)
(* What the fields see of the line.                                        *)
(***************************************************************************)
\* Field i is reached by the loop and its slice is taken: the fields before
\* it were extracted, its bounds check passed and the slice did not abort.
Sliced(i) ==
    LET l == Stripped(line)
    IN  /\ fields[i].pos.end <= str_len(l)
        /\ slice_ok(l, as_range(fields[i].pos))
        /\ i > 1 => parse_line(line, SubSeq(fields, 1, i - 1)).tag = "Ok"

\* The outcome of the call had the schema ended with field i.
UpTo(i) ==
    IF i = Len(fields) THEN result ELSE parse_line(line, SubSeq(fields, 1, i))

\* The slice field i is given.
SliceOf(i) == str_slice(Stripped(line), as_range(fields[i].pos))

\* The characters at the 1-based positions start..end of the stripped line.
CharSlice(i) == SubSeq(Stripped(line), fields[i].pos.start, fields[i].pos.end)

IsWs(c) == c \in {" ", "\r", "\n"}

\* s without its trailing whitespace: the prefix that ends at the last
\* character that is no whitespace.
WithoutTrailingWs(s) ==
    LET keep == {k \in 1..Len(s) : ~IsWs(s[k])}
    IN  IF keep = {} THEN <<>> ELSE SubSeq(s, 1, Max(keep))

\* s without leading and trailing whitespace.
Core(s) ==
    LET keep == {k \in 1..Len(s) : ~IsWs(s[k])}
    IN  IF keep = {} THEN <<>> ELSE SubSeq(s, Min(keep), Max(keep))

\* C2 as claimed: lengths and slices are counted in characters.  The first
\* field is too short exactly when its end exceeds the number of characters
\* of the stripped line, LineTooShort reports that number, and on success
\* every Alpha field holds the characters at positions start..end (less
\* trailing whitespace).
C2_Claimed ==
    Called =>
        LET n == Len(Stripped(line))
        IN  /\ (fields # <<>> /\ fields[1].pos.end > n) =>
                    result = LineTooShort(n, fields[1].pos.end)
            /\ result.tag = "LineTooShort" => result.len = n /\ result.needed > n
            /\ result.tag = "Ok" =>
                    \A i \in 1..Len(fields) :
                        /\ fields[i].pos.end <= n
                        /\ fields[i].kind.tag = "Alpha" =>
                              result.value[fields[i].name].s = WithoutTrailingWs(CharSlice(i))

\* C3 as claimed: with 1 <= start <= end in every field, a call ends with
\* a mapping or with a FixedWidthError value, never with an abort.
C3_Claimed ==
    (Called /\ \A i \in 1..Len(fields) :
                  fields[i].pos.start >= 1 /\ fields[i].pos.end >= fields[i].pos.start)
        => result.tag \in {"Ok", "LineTooShort", "InvalidNumeric", "InvalidUtf8"}

(***************************************************************************)
(* Coercion of the slices.                                                 *)
(***************************************************************************)
\* A numeral without its leading zeros ("0" when nothing else is left).
Canon(ds) ==
    LET nz == {k \in 1..Len(ds) : ds[k] # "0"}
    IN  IF nz = {} THEN <<"0">> ELSE SubSeq(ds, Min(nz), Len(ds))

\* The value of the canonical numeral n is at most 2^63 - 1: it has fewer
\* digits than 9223372036854775807, or as many and is not after it.
AtMostI64Max(n) ==
    LET m == <<9, 2, 2, 3, 3, 7, 2, 0, 3, 6, 8, 5, 4, 7, 7, 5, 8, 0, 7>>
        d(k) == DigitVal(n[k])
    IN  \/ Len(n) < Len(m)
        \/ /\ Len(n) = Len(m)
           /\ \A k \in 1..Len(m) :
                  (\A j \in 1..(k - 1) : d(j) = m[j]) => d(k) <= m[k]

OnlyDigits(s) == \A k \in 1..Len(s) : s[k] \in {"0","1","2","3","4","5","6","7","8","9"}

\* The 64-bit integer a Numeric or Decimal slice stands for, or "invalid".
NumberOf(slice) ==
    LET c == Core(slice)
    IN  IF c = <<>> THEN [valid |-> TRUE, n |-> <<"0">>]
        ELSE IF OnlyDigits(c) /\ AtMostI64Max(Canon(c))
             THEN [valid |-> TRUE, n |-> Canon(c)]
        ELSE [valid |-> FALSE, n |-> <<"0">>]

IsNumber(i) == fields[i].kind.tag \in {"Numeric", "Decimal"}

\* C4: a Numeric or Decimal{scale} field whose slice is blank gives 0, whose
\* slice is (after trimming) ASCII digits within i64 gives that number, with
\* the field's scale for Decimal, and any other slice gives
\* InvalidNumeric{field name, the untrimmed slice}.
C4_NumericCoercion ==
    Called =>
        /\ result.tag = "Ok" =>
              \A i \in 1..Len(fields) : IsNumber(i) =>
                  /\ NumberOf(SliceOf(i)).valid
                  /\ result.value[fields[i].name] =
                        IF fields[i].kind.tag = "Numeric"
                        THEN [kind |-> "Numeric", n |-> NumberOf(SliceOf(i)).n]
                        ELSE [kind |-> "Decimal", raw |-> NumberOf(SliceOf(i)).n,
                              scale |-> fields[i].kind.scale]
        /\ \A i \in 1..Len(fields) :
              (IsNumber(i) /\ Sliced(i) /\ ~NumberOf(SliceOf(i)).valid) =>
                  result = [tag |-> "InvalidNumeric", field |-> fields[i].name,
                            snippet |-> SliceOf(i)]
        /\ result.tag = "InvalidNumeric" =>
              \E i \in 1..Len(fields) :
                  /\ IsNumber(i) /\ Sliced(i) /\ fields[i].name = result.field
                  /\ ~NumberOf(SliceOf(i)).valid

\* C4 witnesses: i64::MAX itself is read, with padding, as a Decimal.
C4_Witness ==
    /\ Called /\ Len(fields) = 1 /\ fields[1].kind.tag = "Decimal"
    /\ result.tag = "Ok"
    /\ SliceOf(1) = <<" ">> \o I64Max
    /\ result.value[fields[1].name].raw = I64Max

\* C5: an Alpha field whose slice is taken gives Alpha(the slice without its
\* trailing whitespace), leading and interior whitespace kept, and is never
\* the field an error names.
C5_AlphaCoercion ==
    Called =>
        /\ result.tag = "Ok" =>
              \A i \in 1..Len(fields) : fields[i].kind.tag = "Alpha" =>
                  result.value[fields[i].name] =
                      [kind |-> "Alpha", s |-> WithoutTrailingWs(SliceOf(i))]
        /\ \A i \in 1..Len(fields) :
              (fields[i].kind.tag = "Alpha" /\ Sliced(i)) =>
                  UpTo(i).tag = "Ok"
        /\ result.tag = "InvalidNumeric" =>
              \A i \in 1..Len(fields) :
                  fields[i].name = result.field => fields[i].kind.tag # "Alpha"

\* C5 witness: the slice " A " gives Alpha(" A"): the leading blank is kept.
C5_Witness ==
    /\ Called /\ Len(fields) = 1 /\ fields[1].kind.tag = "Alpha"
    /\ result.tag = "Ok"
    /\ SliceOf(1) = <<" ", "A", " ">>
    /\ result = [tag |-> "Ok", value |-> ("a" :> [kind |-> "Alpha", s |-> <<" ", "A">>])]

(***************************************************************************)
(* Line endings.                                                           *)
(***************************************************************************)
LineEndings == {<<"\r">>, <<"\n">>, <<"\r", "\n">>}

\* C10: every trailing CR/LF is removed before lengths and slices are
\* computed and nothing else is: a line with CR/LF characters appended
\* parses to the same result, and a line that ends in no CR/LF is parsed
\* as it is.
C10_LineEndings ==
    Called =>
        /\ \A e \in LineEndings : parse_line(line \o e, fields) = result
        /\ (line = <<>> \/ line[Len(line)] \notin {"\r", "\n"}) =>
               result = parse_fields(line, Utf8Bytes(line), fields, 1, EmptyMap)
        /\ result.tag = "LineTooShort" => result.len = Utf8Bytes(Stripped(line))

\* C10 witness: a line with an interior CR and a trailing CR LF is parsed.
C10_Witness ==
    /\ Called
    /\ line = <<"\r", "7", "\n">>
    /\ Len(fields) = 1 /\ fields[1].pos = [start |-> 1, end |-> 2]
    /\ result.tag = "Ok"

(***************************************************************************)
(* Properties of the derive and of the generated parse.                    *)
(***************************************************************************)
PosValid(st) ==
    \A i \in 1..Len(st) : st[i].pos_start >= 1 /\ st[i].pos_end >= st[i].pos_start

\* Two fields have a position in common.
Shares(f, g) ==
    \E p \in 1..MaxPos :
        /\ f.pos_start <= p /\ p <= f.pos_end
        /\ g.pos_start <= p /\ p <= g.pos_end

SomeShared(st) ==
    \E i, j \in 1..Len(st) : i # j /\ Shares(st[i], st[j])

OverlapRejected(d) == d.tag = "compile_error" /\ d.why.kind = "overlap"

Orders(n) ==
    {f \in [1..n -> 1..n] : \A i, j \in 1..n : f[i] = f[j] => i = j}

Reordered(st, f) == [i \in 1..Len(st) |-> st[f[i]]]

\* C6: the overlap check rejects the fields exactly when two distinct
\* fields share a position (touching ranges pass, equal or nested ranges do
\* not), and the verdict is the same in every order of the fields.
C6_Overlap ==
    (derived # NotExpanded /\ PosValid(input)) =>
        /\ OverlapRejected(derived) <=> SomeShared(input)
        /\ \A f \in Orders(Len(input)) :
               overlap_check(Reordered(input, f)).conflict <=> OverlapRejected(derived)

\* C6 witness: of three fields the first and the third share one position
\* (2..3, 1..1, 3..3) and the struct is rejected for that pair.
C6_Witness ==
    /\ Len(input) = 3 /\ PosValid(input)
    /\ OverlapRejected(derived)
    /\ derived.why.pair.a = "a" /\ derived.why.pair.b = "c"
    /\ derived.why.pair.overlap_start = derived.why.pair.overlap_end
    /\ ~Shares(input[1], input[2]) /\ ~Shares(input[2], input[3])

\* The field list the last parse call used.
UsedSchema ==
    [i \in 1..Len(fields) |->
        ParsedField(fields[i].name, "", fields[i].pos.start, fields[i].pos.end,
                    fields[i].kind)]

\* C7 as claimed: a line is parsed only against a schema that has passed
\* validation, so the schema of every parse call, direct or derived, has
\* 1 <= start <= end in every field and no two fields sharing a position.
C7_Claimed ==
    op \in {"parse", "parse_line"} =>
        PosValid(UsedSchema) /\ ~SomeShared(UsedSchema)

\* C7 amended: whenever a line is parsed through the derived type
\* (FixedWidthParse::parse), the fields of that type passed the position
\* and the overlap validation; parse_line called directly is not gated.
C7_Amended ==
    op = "parse" =>
        /\ derived.tag = "impl"
        /\ derived.parsed_fields = input
        /\ PosValid(input)
        /\ ~SomeShared(input)

\* C7 witness: a line is parsed into a derived type of two fields.
C7_Witness ==
    /\ op = "parse" /\ Len(input) = 2 /\ result.tag = "Ok"

\* The value of a numeral of at most three digits.
RECURSIVE ShortValue(_)
ShortValue(n) ==
    IF n = <<>> THEN 0
    ELSE 10 * ShortValue(SubSeq(n, 1, Len(n) - 1)) + DigitVal(n[Len(n)])

\* The 64-bit value n >= 0 fits the declared integer type.
FitsTy(n, ty) ==
    \/ ty = "i64"
    \/ ty = "u8" /\ Len(n) <= 3 /\ ShortValue(n) <= 255

\* C8 as claimed: a Numeric value that does not fit the declared type of
\* its field makes parse fail with InvalidNumeric naming the field, a value
\* that fits is stored unchanged, and no truncated or wrapped number is
\* ever stored.
C8_Claimed ==
    (op = "parse" /\ parsed # EmptyMap) =>
        LET nums == {i \in 1..Len(input) : input[i].kind.tag = "Numeric"}
            bad == {i \in nums : ~FitsTy(parsed[input[i].ident].n, input[i].ty)}
        IN  /\ result.tag = "Ok" =>
                  \A i \in nums : result.value[input[i].ident].n = parsed[input[i].ident].n
            /\ bad # {} =>
                  /\ result.tag = "InvalidNumeric"
                  /\ result.field = input[Min(bad)].ident

\* Field i of the struct finds no value, or a value of another kind.
Mismatch(i) ==
    \/ input[i].ident \notin DOMAIN parsed
    \/ parsed[input[i].ident].kind # input[i].kind.tag

\* The binding never meets a mismatch: the map it receives holds, for every
\* field of the struct, a value of the field's declared kind, and the
\* binding of the map neither fails on a kind nor aborts on a missing key.
BindingFindsItsValues ==
    /\ \A i \in 1..Len(input) : ~Mismatch(i)
    /\ op = "bind" => result.tag = "Ok"

\* Some binding has run on a map with a value of each kind.
BindingRan ==
    /\ op = "bind"
    /\ Len(input) = 2
    /\ parsed[input[1].ident].kind # parsed[input[2].ident].kind

(***************************************************************************)
(* Properties of Value::as_f64.                                            *)
(***************************************************************************)
\* raw / 10^scale with the exact power as the divisor.
ExactQuotient(v) ==
    Some([f64 |-> "div", raw |-> v.raw, factor |-> I64(FALSE, Pow10(v.scale))])

\* C11: as_f64 returns raw divided by the exact power 10^scale on every
\* Decimal { raw, scale } with scale in 0..255, the power never being
\* computed with overflow, wrap-around or an abort, and returns no value
\* on Alpha and Numeric.
C11_Claimed ==
    op = "as_f64" =>
        LET v == parsed["a"]
        IN  IF v.kind = "Decimal" THEN result = ExactQuotient(v)
            ELSE result = None


====
